---- MODULE Spec2Model ----
(***************************************************************************)
(* The extract and remediation endpoints of the GAM configuration manager  *)
(* (backend/app/api/v1/endpoints/gam.py and remediation.py) as a state     *)
(* machine over the Configuration Store.  One request is in flight at a    *)
(* time; a handler is split exactly where it commits to the store, so that *)
(* every state is something a concurrent reader of the store can observe.  *)
(* Display strings (Configuration.name, .description, response messages)  *)
(* carry no decision and are left out.                                     *)
(***************************************************************************)
EXTENDS Integers, Sequences, FiniteSets, TLC

VARIABLES configs, findings, nextConfigId, nextFindingId, pc, cur, resp,
          runnerCalls, extractCalls, written

vars == <<configs, findings, nextConfigId, nextFindingId, pc, cur, resp,
          runnerCalls, extractCalls, written>>

\* ---------------------------------------------------------------- bounds
\* Configurations the store may receive on top of the initial one.
MaxConfigs == 1
\* Longest list payload the Command Runner returns for one category.
MaxItems == 2

\* ------------------------------------------------------------- utilities
NONE == <<>>
Some(v) == <<v>>

Range(s) == {s[i] : i \in DOMAIN s}

RECURSIVE SumOver(_, _)
SumOver(S, f) ==
    IF S = {} THEN 0
    ELSE LET x == CHOOSE y \in S : TRUE IN f[x] + SumOver(S \ {x}, f)

RECURSIVE SeqSum(_)
SeqSum(s) == IF s = <<>> THEN 0 ELSE Head(s) + SeqSum(Tail(s))

EmptyMap == [x \in {} |-> ""]

\* ------------------------------------------------------------ data model
\* ConfigType values that a request names; "other" tags a multi-category
\* Configuration.
TYPE_USER == "user"
TYPE_OAUTH_TOKENS == "oauth_tokens"
TYPE_OTHER == "other"

\* Records a list payload may hold: two accounts/tokens an analyzer rule
\* flags and one compliant record.
Entries == {"a", "b", "ok"}

EntryOrder == <<"a", "b", "ok">>

\* A listing names each record once, in the directory's order.
ListsUpTo(n) ==
    {SelectSeq(EntryOrder, LAMBDA e : e \in S) :
        S \in {T \in SUBSET Entries : Cardinality(T) <= n}}

\* What the Command Runner returns for one category: a list of records, a
\* mapping or a raw string (possibly empty), or a failure.
Payloads ==
    {[kind |-> "list", items |-> l] : l \in ListsUpTo(MaxItems)}
    \cup {[kind |-> "dict", items |-> l] : l \in {<<>>, <<"k">>}}
    \cup {[kind |-> "str", items |-> l] : l \in {<<>>, <<"x">>}}

Failed == [kind |-> "failed", items |-> <<>>]

\* The config_types lists a caller sends to extract.
ConfigTypeLists ==
    {<<>>, <<TYPE_USER>>, <<TYPE_OAUTH_TOKENS>>,
     <<TYPE_USER, TYPE_OAUTH_TOKENS>>, <<TYPE_OAUTH_TOKENS, TYPE_USER>>}

\* ------------------------------------------- GAMService.extract_all_configs
\* One Command Runner invocation per requested category; `outcome` maps each
\* category to the payload it returned or to Failed.
ExtractAllConfigs(config_types, outcome) ==
    LET ok   == {t \in Range(config_types) : outcome[t] # Failed}
        data == [t \in ok |-> outcome[t]]
        errs == SelectSeq(config_types, LAMBDA t : outcome[t] = Failed)
    IN  [success |-> ok # {},
         data    |-> data,
         errors  |-> [i \in DOMAIN errs |-> [config_type |-> errs[i], error |-> "gam failed"]]]

Outcomes(config_types) == [Range(config_types) -> Payloads \cup {Failed}]

\* ------------------------------------------------------- SecurityService
RuleFindings(data, key, title, severity, scope) ==
    IF key \in DOMAIN data /\ data[key].kind = "list"
    THEN LET flagged == SelectSeq(data[key].items, LAMBDA e : e # "ok")
         IN  [i \in DOMAIN flagged |->
                [severity          |-> severity,
                 title             |-> title,
                 description       |-> [scope |-> scope, listed |-> Len(data[key].items)],
                 affected_settings |-> flagged[i]]]
    ELSE <<>>

\* analyze_configuration: the rules of the category, all rules for a multi-category one.
AnalyzeConfiguration(config_data, config_type) ==
    (IF config_type \in {TYPE_USER, TYPE_OTHER}
     THEN RuleFindings(config_data, TYPE_USER, "No 2FA", "high", config_type)
     ELSE <<>>)
    \o
    (IF config_type \in {TYPE_OAUTH_TOKENS, TYPE_OTHER}
     THEN RuleFindings(config_data, TYPE_OAUTH_TOKENS, "Broad OAuth scope", "medium", config_type)
     ELSE <<>>)

SeverityWeight(s) ==
    CASE s = "critical" -> 40
      [] s = "high"     -> 25
      [] s = "medium"   -> 10
      [] s = "low"      -> 5
      [] OTHER          -> 0

\* get_security_score: 100 minus the summed weights, floored at 0.
GetSecurityScore(sevs) ==
    LET total == SeqSum([i \in DOMAIN sevs |-> SeverityWeight(sevs[i])])
    IN  IF total >= 100 THEN 0 ELSE 100 - total

\* ------------------------------------------------------------ the store
\* db.add(Configuration(...)); commit; refresh: the row gets the next id.
NewConfiguration(id, config_type, config_data, extraction_errors) ==
    [id |-> id, config_type |-> config_type, config_data |-> config_data,
     extraction_errors |-> extraction_errors]

\* db.add(SecurityAnalysis(...)) for every draft, ids in list order.
NewFindingRows(configuration_id, drafts, firstId) ==
    {[id                |-> firstId + i - 1,
      configuration_id  |-> configuration_id,
      severity          |-> drafts[i].severity,
      title             |-> drafts[i].title,
      description       |-> drafts[i].description,
      affected_settings |-> drafts[i].affected_settings] : i \in DOMAIN drafts}

Draft(f) ==
    [severity |-> f.severity, title |-> f.title, description |-> f.description,
     affected_settings |-> f.affected_settings]

\* ------------------------------------------------------- extract handler
\* `not result["success"] and not result["data"]`
TotalFailure_AnyError(result) == result.errors # <<>>
TotalFailure(result) == ~result.success /\ DOMAIN result.data = {}

\* sum(len(data) if isinstance(data, list) else 1 for data in ...values())
PayloadCount(p) == IF p.kind = "list" THEN Len(p.items) ELSE 1
TotalItems(data) == SumOver(DOMAIN data, [k \in DOMAIN data |-> PayloadCount(data[k])])

\* [t for t in request.config_types if t.value not in result["data"]]
FailedTypes_Present(config_types, data) ==
    SelectSeq(config_types, LAMBDA t : t \in DOMAIN data)
FailedTypes(config_types, data) ==
    SelectSeq(config_types, LAMBDA t : t \notin DOMAIN data)

\* config_types[0] if len(config_types) == 1 else ConfigType.OTHER
ConfigTypeOf(config_types) ==
    IF Len(config_types) = 1 THEN config_types[1] ELSE TYPE_OTHER

\* {"errors": errors, "failed_types": [...]} if errors else None
ExtractionErrors(errors, failed_types) ==
    IF errors # <<>>
    THEN Some([errors |-> errors, failed_types |-> failed_types])
    ELSE NONE

HttpError(status, detail) == [kind |-> "error", status |-> status, detail |-> detail]

NoRequest == [op |-> "none"]
NoResponse == [kind |-> "none"]

\* POST /extract up to its first commit: extraction, the total-failure exit,
\* the counts, and the Configuration row.
ExtractRequest(config_types, outcome) ==
    /\ pc = "idle"
    /\ nextConfigId <= 1 + MaxConfigs
    /\ LET result       == ExtractAllConfigs(config_types, outcome)
           failed_types == FailedTypes(config_types, result.data)
       IN  /\ runnerCalls' = 0
           /\ extractCalls' = 1
           /\ IF TotalFailure(result)
              THEN /\ resp' = HttpError(500, "Failed to extract configurations")
                   /\ pc' = "done"
                   /\ cur' = [op |-> "extract", config_types |-> config_types,
                              result |-> result]
                   /\ written' = {}
                   /\ UNCHANGED <<configs, findings, nextConfigId, nextFindingId>>
              ELSE /\ configs' = configs \cup
                        {NewConfiguration(nextConfigId, ConfigTypeOf(config_types),
                                          result.data,
                                          ExtractionErrors(result.errors, failed_types))}
                   /\ nextConfigId' = nextConfigId + 1
                   /\ written' = {[table |-> "configuration", id |-> nextConfigId]}
                   /\ cur' = [op |-> "extract", config_types |-> config_types,
                              result |-> result,
                              total_items |-> TotalItems(result.data),
                              failed_types |-> failed_types,
                              db_config_id |-> nextConfigId]
                   /\ pc' = "x_committed"
                   /\ resp' = NoResponse
                   /\ UNCHANGED <<findings, nextFindingId>>

\* POST /extract after the Configuration commit: analysis, the finding rows,
\* the second commit and the response.
ExtractSaveFindings ==
    /\ pc = "x_committed"
    /\ LET db_config == CHOOSE c \in configs : c.id = cur.db_config_id
           drafts    == AnalyzeConfiguration(db_config.config_data, db_config.config_type)
           rows      == NewFindingRows(db_config.id, drafts, nextFindingId)
       IN  /\ findings' = findings \cup rows
           /\ nextFindingId' = nextFindingId + Len(drafts)
           /\ written' = written \cup {[table |-> "finding", id |-> r.id] : r \in rows}
           /\ resp' = [kind             |-> "extract",
                       success          |-> TRUE,
                       configuration_id |-> db_config.id,
                       extracted_types  |-> cur.config_types,
                       total_items      |-> cur.total_items,
                       errors           |-> IF cur.result.errors # <<>>
                                            THEN Some(cur.result.errors) ELSE NONE,
                       failed_types     |-> IF cur.failed_types # <<>>
                                            THEN Some(cur.failed_types) ELSE NONE]
    /\ pc' = "done"
    /\ UNCHANGED <<configs, nextConfigId, cur, runnerCalls, extractCalls>>

\* --------------------------------------------------- remediation handler
\* RemediationRequest.parameters: Optional[Dict[str, Any]] = None.
ParameterChoices ==
    {NONE,
     Some(EmptyMap),
     Some("user_email" :> "a"),
     Some("user_email" :> ""),
     Some("user" :> "a"),
     Some(("user" :> "a") @@ ("client_id" :> "c1")),
     Some("note" :> "x")}

ActionIds == {"enforce_2fa", "revoke_oauth_token", "disable_user"}

\* dict.get(key): the value, or None when the key is absent.
Get(m, k) == IF k \in DOMAIN m THEN Some(m[k]) ELSE NONE
\* Python truthiness of a .get() result: None and "" are falsy.
Falsy(v) == v = NONE \/ v = Some("")

Reject(status, detail) ==
    [kind |-> "reject", status |-> status, detail |-> detail, args |-> <<>>]
Run(args) == [kind |-> "run", status |-> 0, detail |-> "", args |-> args]
\* request.parameters.get(...) on None raises AttributeError: an unhandled
\* exception, answered with 500.
Crash == [kind |-> "crash", status |-> 500, detail |-> "AttributeError", args |-> <<>>]

\* The if / elif / else over request.action_id: the command to run, or the
\* HTTPException raised before any command runs.
Dispatch_NoElse(action_id, parameters) ==
    IF action_id = "enforce_2fa"
    THEN IF parameters = NONE THEN Crash
         ELSE LET user_email == Get(parameters[1], "user_email")
              IN  IF Falsy(user_email)
                  THEN Reject(400, "user_email parameter required")
                  ELSE Run(<<"update", "user", user_email[1], "enforcein2sv", "true">>)
    ELSE IF parameters = NONE THEN Crash
         ELSE LET user      == Get(parameters[1], "user")
                  client_id == Get(parameters[1], "client_id")
              IN  IF Falsy(user) \/ Falsy(client_id)
                  THEN Reject(400, "user and client_id parameters required")
                  ELSE Run(<<"user", user[1], "revoke", "token", client_id[1]>>)
Dispatch(action_id, parameters) ==
    IF action_id = "enforce_2fa"
    THEN IF parameters = NONE THEN Crash
         ELSE LET user_email == Get(parameters[1], "user_email")
              IN  IF Falsy(user_email)
                  THEN Reject(400, "user_email parameter required")
                  ELSE Run(<<"update", "user", user_email[1], "enforcein2sv", "true">>)
    ELSE IF action_id = "revoke_oauth_token"
    THEN IF parameters = NONE THEN Crash
         ELSE LET user      == Get(parameters[1], "user")
                  client_id == Get(parameters[1], "client_id")
              IN  IF Falsy(user) \/ Falsy(client_id)
                  THEN Reject(400, "user and client_id parameters required")
                  ELSE Run(<<"user", user[1], "revoke", "token", client_id[1]>>)
    ELSE Reject(400, "Unknown action_id")

\* `if not gam_result["success"]`
CommandFailed_Ignored(gam_result) == FALSE
CommandFailed(gam_result) == ~gam_result.success

\* config_types_to_extract
RescanTypes_All(action_id) ==
    IF action_id \in {"enforce_2fa", "revoke_oauth_token"}
    THEN <<TYPE_USER, TYPE_OAUTH_TOKENS>>
    ELSE <<>>
RescanTypes(action_id) ==
    IF action_id = "enforce_2fa" THEN <<TYPE_USER>>
    ELSE IF action_id = "revoke_oauth_token" THEN <<TYPE_OAUTH_TOKENS>>
    ELSE <<>>

\* not any(f["title"] == finding.title and
\*         f.get("affected_settings") == finding.affected_settings ...)
FindingResolved_TitleOnly(finding, new_findings) ==
    ~\E i \in DOMAIN new_findings : new_findings[i].title = finding.title
FindingResolved(finding, new_findings) ==
    ~\E i \in DOMAIN new_findings :
        /\ new_findings[i].title = finding.title
        /\ new_findings[i].affected_settings = finding.affected_settings

\* The severities of a set of rows, in id order.
RECURSIVE Severities(_)
Severities(rows) ==
    IF rows = {} THEN <<>>
    ELSE LET r == CHOOSE x \in rows : \A y \in rows : x.id <= y.id
         IN  <<r.severity>> \o Severities(rows \ {r})

RemediationResponse(success, gam_output, new_configuration_id, security_score_before, security_score_after, finding_resolved) ==
    [kind                  |-> "remediation",
     success               |-> success,
     finding_id            |-> cur.finding_id,
     action_executed       |-> cur.action_id,
     gam_output            |-> gam_output,
     new_configuration_id  |-> new_configuration_id,
     security_score_before |-> security_score_before,
     security_score_after  |-> security_score_after,
     finding_resolved      |-> finding_resolved]

\* POST /execute, first query: the finding.
ExecLookupFinding(finding_id, action_id, parameters, auto_rescan) ==
    /\ pc = "idle"
    /\ nextConfigId <= 1 + MaxConfigs
    /\ LET hit     == {f \in findings : f.id = finding_id}
           finding == IF hit = {} THEN NONE ELSE Some(CHOOSE f \in hit : TRUE)
       IN  /\ cur' = [op |-> "execute", finding_id |-> finding_id,
                      action_id |-> action_id, parameters |-> parameters,
                      auto_rescan |-> auto_rescan, finding |-> finding,
                      config |-> NONE, gam_result |-> NONE,
                      config_types_to_extract |-> <<>>,
                      extract_result |-> NONE, score_before |-> NONE,
                      new_config_id |-> NONE, new_findings |-> NONE]
           /\ IF finding = NONE
              THEN /\ resp' = HttpError(404, "Security finding not found")
                   /\ pc' = "done"
              ELSE /\ resp' = NoResponse
                   /\ pc' = "r_finding"
    /\ runnerCalls' = 0
    /\ extractCalls' = 0
    /\ written' = {}
    /\ UNCHANGED <<configs, findings, nextConfigId, nextFindingId>>

\* POST /execute from the Configuration query to the rescan's Configuration
\* commit: baseline score, dispatch, the command, the failure exit, and the
\* scoped re-extraction.  cmd_ok and outcome are what the Command Runner
\* answers.
ExecRun(cmd_ok, outcome) ==
    /\ pc = "r_finding"
    /\ LET finding  == cur.finding[1]
           hit      == {c \in configs : c.id = finding.configuration_id}
           before   == {a \in findings : a.configuration_id = finding.configuration_id}
           score    == GetSecurityScore(Severities(before))
           d        == Dispatch(cur.action_id, cur.parameters)
           gam      == [success |-> cmd_ok]
           types    == RescanTypes(cur.action_id)
           extract  == ExtractAllConfigs(types, outcome)
           stop(r, c, calls, ex) ==
               /\ resp' = r
               /\ cur' = c
               /\ runnerCalls' = calls
               /\ extractCalls' = ex
               /\ pc' = "done"
               /\ UNCHANGED <<configs, findings, nextConfigId, nextFindingId, written>>
       IN  IF hit = {}
           THEN stop(HttpError(404, "Configuration not found"), cur, 0, 0)
           ELSE LET c1 == [cur EXCEPT !.config = Some(CHOOSE c \in hit : TRUE),
                                      !.score_before = Some(score)]
                    c2 == [c1 EXCEPT !.gam_result = Some(gam)]
                    c3 == [c2 EXCEPT !.config_types_to_extract = types,
                                     !.extract_result = Some(extract)]
                IN  IF d.kind # "run"
                    THEN stop(HttpError(d.status, d.detail), c1, 0, 0)
                    ELSE IF CommandFailed(gam)
                    THEN stop(RemediationResponse(FALSE, "error", NONE, NONE, NONE, FALSE),
                              c2, 1, 0)
                    ELSE IF ~cur.auto_rescan \/ types = <<>>
                    THEN stop(RemediationResponse(TRUE, "data", NONE, Some(score), NONE, FALSE),
                              c2, 1, 0)
                    ELSE IF ~extract.success
                    THEN stop(RemediationResponse(TRUE, "data", NONE, Some(score), NONE, FALSE),
                              c3, 1, 1)
                    ELSE /\ configs' = configs \cup
                              {NewConfiguration(nextConfigId, ConfigTypeOf(types),
                                                extract.data, NONE)}
                         /\ nextConfigId' = nextConfigId + 1
                         /\ written' = {[table |-> "configuration", id |-> nextConfigId]}
                         /\ cur' = [c3 EXCEPT !.new_config_id = Some(nextConfigId)]
                         /\ runnerCalls' = 1
                         /\ extractCalls' = 1
                         /\ pc' = "r_committed"
                         /\ resp' = NoResponse
                         /\ UNCHANGED <<findings, nextFindingId>>

\* POST /execute after the rescan's Configuration commit: analysis, the
\* finding rows, the second commit, score_after, finding_resolved.
ExecSaveFindings ==
    /\ pc = "r_committed"
    /\ LET new_config   == CHOOSE c \in configs : c.id = cur.new_config_id[1]
           new_findings == AnalyzeConfiguration(new_config.config_data,
                                                new_config.config_type)
           rows         == NewFindingRows(new_config.id, new_findings, nextFindingId)
           score_after  == GetSecurityScore([i \in DOMAIN new_findings |->
                                               new_findings[i].severity])
           resolved     == FindingResolved(cur.finding[1], new_findings)
       IN  /\ findings' = findings \cup rows
           /\ nextFindingId' = nextFindingId + Len(new_findings)
           /\ written' = written \cup {[table |-> "finding", id |-> r.id] : r \in rows}
           /\ cur' = [cur EXCEPT !.new_findings = Some(new_findings)]
           /\ resp' = RemediationResponse(TRUE, "data", cur.new_config_id,
                                          cur.score_before, Some(score_after), resolved)
    /\ pc' = "done"
    /\ UNCHANGED <<configs, nextConfigId, runnerCalls, extractCalls>>

\* The response (or the HTTP error) leaves the handler; its locals and the
\* request-scoped session go with it.
ReturnResponse ==
    /\ pc = "done"
    /\ pc' = "idle"
    /\ cur' = NoRequest
    /\ resp' = NoResponse
    /\ runnerCalls' = 0
    /\ extractCalls' = 0
    /\ written' = {}
    /\ UNCHANGED <<configs, findings, nextConfigId, nextFindingId>>

\* ------------------------------------------------------- the environment
\* Another client deletes a Configuration; its findings go with it.  A
\* Configuration a handler is still writing findings for is left alone.
DeleteConfiguration(id) ==
    /\ pc \in {"idle", "r_finding"}
    /\ \E c \in configs : c.id = id
    /\ configs' = {c \in configs : c.id # id}
    /\ findings' = {f \in findings : f.configuration_id # id}
    /\ UNCHANGED <<nextConfigId, nextFindingId, pc, cur, resp, runnerCalls,
                   extractCalls, written>>

\* ------------------------------------------------------------ behaviour
InitData == (TYPE_USER :> [kind |-> "list", items |-> <<"a">>])
            @@ (TYPE_OAUTH_TOKENS :> [kind |-> "list", items |-> <<"a">>])

\* The store after one earlier extract of both categories.
Init ==
    /\ configs = {NewConfiguration(1, TYPE_OTHER, InitData, NONE)}
    /\ findings = NewFindingRows(1, AnalyzeConfiguration(InitData, TYPE_OTHER), 1)
    /\ nextConfigId = 2
    /\ nextFindingId = 3
    /\ pc = "idle"
    /\ cur = NoRequest
    /\ resp = NoResponse
    /\ runnerCalls = 0
    /\ extractCalls = 0
    /\ written = {}

Next ==
    \/ \E ts \in ConfigTypeLists : \E o \in Outcomes(ts) : ExtractRequest(ts, o)
    \/ ExtractSaveFindings
    \/ \E fid \in 1..nextFindingId : \E a \in ActionIds :
         \E p \in ParameterChoices : \E r \in BOOLEAN :
            ExecLookupFinding(fid, a, p, r)
    \/ /\ pc = "r_finding"
       /\ \E ok \in BOOLEAN : \E o \in Outcomes(RescanTypes(cur.action_id)) : ExecRun(ok, o)
    \/ ExecSaveFindings
    \/ ReturnResponse
    \/ \E id \in 1..nextConfigId : DeleteConfiguration(id)

Spec == Init /\ [][Next]_vars

\* ================================================================ claims
ExecDone == pc = "done" /\ cur.op = "execute"
ExtractDone == pc = "done" /\ cur.op = "extract"
Catalog == {"enforce_2fa", "revoke_oauth_token"}
WroteConfigurations == {w \in written : w.table = "configuration"}

\* C1: an execute request whose finding is absent, whose owning Configuration
\* is absent, or whose action_id is not in the catalog ends with 404 (the two
\* lookups) respectively 400 Unknown action_id, without any Command Runner
\* invocation and without any write to the store.
C1_AbortsBeforeCommand ==
    ExecDone =>
        LET noFinding == cur.finding = NONE
            noConfig  == cur.finding # NONE /\ cur.config = NONE
            badAction == cur.action_id \notin Catalog
            untouched == runnerCalls = 0 /\ extractCalls = 0 /\ written = {}
        IN  /\ noFinding =>
                 resp = HttpError(404, "Security finding not found") /\ untouched
            /\ noConfig =>
                 resp = HttpError(404, "Configuration not found") /\ untouched
            /\ (~noFinding /\ ~noConfig /\ badAction) =>
                 resp = HttpError(400, "Unknown action_id") /\ untouched

\* An unknown action_id, sent with a full set of parameters for a finding and
\* a Configuration that exist, has been answered.
C1_Witness ==
    /\ ExecDone
    /\ cur.finding # NONE /\ cur.config # NONE
    /\ cur.action_id \notin Catalog
    /\ cur.parameters = Some(("user" :> "a") @@ ("client_id" :> "c1"))
    /\ resp.kind = "error"

C2_Required(action_id) ==
    IF action_id = "enforce_2fa" THEN {"user_email"} ELSE {"user", "client_id"}

C2_Missing(action_id, parameters) ==
    \/ parameters = NONE
    \/ /\ parameters # NONE
       /\ \E k \in C2_Required(action_id) : k \notin DOMAIN parameters[1]

\* C2: an execute request for a catalog action whose parameters lack a
\* required key, whatever their shape (empty, other keys, omitted/null), ends
\* with 400 MissingParameter and without any Command Runner invocation.
C2_MissingParameterRejected ==
    (/\ ExecDone
     /\ cur.finding # NONE /\ cur.config # NONE
     /\ cur.action_id \in Catalog
     /\ C2_Missing(cur.action_id, cur.parameters))
    => /\ resp.kind = "error"
       /\ resp.status = 400
       /\ runnerCalls = 0

\* C3: when the remediation command reports failure the request ends at once:
\* success, finding_resolved are false, new_configuration_id and score_after
\* are null, the command ran exactly once, no extraction was started and
\* nothing was written, whatever auto_rescan says.
C3_CommandFailureIsTerminal ==
    (/\ cur.op = "execute"
     /\ cur.gam_result # NONE
     /\ ~cur.gam_result[1].success)
    => /\ pc = "done"
       /\ resp.kind = "remediation"
       /\ ~resp.success
       /\ ~resp.finding_resolved
       /\ resp.new_configuration_id = NONE
       /\ resp.security_score_after = NONE
       /\ runnerCalls = 1
       /\ extractCalls = 0
       /\ cur.extract_result = NONE
       /\ written = {}

\* The command failed on a request that asked for a rescan.
C3_Witness ==
    /\ ExecDone
    /\ cur.gam_result # NONE
    /\ ~cur.gam_result[1].success
    /\ cur.auto_rescan

\* C4: every Configuration a reader of the store can see is there with all
\* the findings the Security Analyzer produces for it.
C4_NoPartialFindingSet ==
    \A c \in configs :
        {Draft(f) : f \in {g \in findings : g.configuration_id = c.id}}
            = Range(AnalyzeConfiguration(c.config_data, c.config_type))

C5_StoredNewFindings ==
    {f \in findings : f.configuration_id = resp.new_configuration_id[1]}

\* C5: after a verification rescan, finding_resolved is true exactly when no
\* finding stored for the new Configuration has both the title and the
\* affected_settings of the original finding; the description plays no part.
C5_ResolvedIffNoMatch ==
    (/\ ExecDone
     /\ resp.kind = "remediation"
     /\ resp.new_configuration_id # NONE)
    => (resp.finding_resolved <=>
          ~\E f \in C5_StoredNewFindings :
              /\ f.title = cur.finding[1].title
              /\ f.affected_settings = cur.finding[1].affected_settings)

\* The rescan found the original title on other settings only, and the
\* finding is reported resolved.
C5_Witness ==
    /\ ExecDone
    /\ resp.kind = "remediation"
    /\ resp.new_configuration_id # NONE
    /\ resp.finding_resolved
    /\ \E f \in C5_StoredNewFindings :
          /\ f.title = cur.finding[1].title
          /\ f.affected_settings # cur.finding[1].affected_settings

C6_AllFailed ==
    \A t \in Range(cur.config_types) : t \notin DOMAIN cur.result.data

\* C6: an extract request all of whose categories fail ends with 500 and
\* writes nothing; every other extract request writes exactly one
\* Configuration and answers success = true.
C6_TotalFailureOrOneConfiguration ==
    ExtractDone =>
        IF C6_AllFailed
        THEN /\ ~cur.result.success /\ DOMAIN cur.result.data = {}
             /\ resp.kind = "error" /\ resp.status = 500
             /\ written = {}
        ELSE /\ resp.kind = "extract" /\ resp.success
             /\ Cardinality(WroteConfigurations) = 1
             /\ \E c \in configs : c.id = resp.configuration_id

\* Both requested categories failed.
C6_Witness ==
    /\ ExtractDone
    /\ Len(cur.config_types) = 2
    /\ C6_AllFailed
    /\ resp.kind = "error"

C7_Difference == Range(cur.config_types) \ DOMAIN cur.result.data

C7_Stored == CHOOSE c \in configs : c.id = resp.configuration_id

\* C7: in a successful extract response failed_types is the requested
\* categories minus the keys of data (null when that is empty), and the
\* stored extraction_errors carries the same set whenever a category failed.
C7_FailedTypesIsDifference ==
    (ExtractDone /\ resp.kind = "extract") =>
        /\ (C7_Difference = {}) <=> (resp.failed_types = NONE)
        /\ C7_Difference # {} =>
             /\ Range(resp.failed_types[1]) = C7_Difference
             /\ C7_Stored.extraction_errors # NONE
             /\ Range(C7_Stored.extraction_errors[1].failed_types) = C7_Difference

\* One of two requested categories failed.
C7_Witness ==
    /\ ExtractDone /\ resp.kind = "extract"
    /\ Len(cur.config_types) = 2
    /\ resp.failed_types # NONE

C8_Claimed(p) ==
    IF p.items = <<>> THEN 0
    ELSE IF p.kind = "list" THEN Len(p.items) ELSE 1

\* C8: total_items is the sum over the keys of data of the element count of
\* a sequence payload and 1 for any other payload, an empty payload (empty
\* sequence, mapping or string) counting 0.
C8_EmptyPayloadsCountZero ==
    (ExtractDone /\ resp.kind = "extract") =>
        resp.total_items =
            SumOver(DOMAIN cur.result.data,
                    [k \in DOMAIN cur.result.data |-> C8_Claimed(cur.result.data[k])])

C9_Rescanned ==
    /\ cur.gam_result # NONE /\ cur.gam_result[1].success
    /\ cur.auto_rescan
    /\ cur.extract_result # NONE /\ cur.extract_result[1].success

C9_Scope(action_id) ==
    IF action_id = "enforce_2fa" THEN {TYPE_USER} ELSE {TYPE_OAUTH_TOKENS}

\* C9: an execute request writes a new Configuration and reports
\* new_configuration_id and score_after exactly when the command succeeded,
\* auto_rescan was set and the rescan extraction, scoped to the one category
\* of the action, succeeded; otherwise the store is not written, both fields
\* are null and finding_resolved is false.
C9_RescanPersistsIffAllSucceeded ==
    ExecDone =>
        /\ (WroteConfigurations # {}) <=> C9_Rescanned
        /\ C9_Rescanned =>
             /\ resp.kind = "remediation" /\ resp.success
             /\ resp.new_configuration_id # NONE
             /\ resp.security_score_after # NONE
             /\ WroteConfigurations =
                  {[table |-> "configuration", id |-> resp.new_configuration_id[1]]}
             /\ \E c \in configs : c.id = resp.new_configuration_id[1]
             /\ Range(cur.config_types_to_extract) = C9_Scope(cur.action_id)
             /\ DOMAIN cur.extract_result[1].data \subseteq C9_Scope(cur.action_id)
        /\ ~C9_Rescanned =>
             /\ written = {}
             /\ resp.kind = "remediation" =>
                  /\ resp.new_configuration_id = NONE
                  /\ resp.security_score_after = NONE
                  /\ ~resp.finding_resolved

\* A rescan ran to the end and the response names the new Configuration.
C9_Witness ==
    /\ ExecDone
    /\ C9_Rescanned
    /\ resp.kind = "remediation"
    /\ resp.new_configuration_id # NONE

\* C10: in a successful extract response extracted_types is the set of
\* categories present in data, and shares nothing with failed_types.
C10_ExtractedDisjointFromFailed ==
    (ExtractDone /\ resp.kind = "extract") =>
        /\ Range(resp.extracted_types) = DOMAIN cur.result.data
        /\ resp.failed_types # NONE =>
             Range(resp.extracted_types) \cap Range(resp.failed_types[1]) = {}
====
